---- MODULE Spec2Model ----
(***************************************************************************)
(* Pebblo retrieval chain: identity and semantic enforcement filters       *)
(* (langchain/chains/pebblo_retrieval/base.py) and the background policy   *)
(* cache (langchain_community/chains/pebblo_retrieval/utilities.py).       *)
(***************************************************************************)
EXTENDS Integers, Sequences, FiniteSets, TLC

VARIABLES
    vectorstore,       \* kind of retriever.vectorstore
    auth_context,      \* PebbloRetrievalQA.auth_context (None or AuthContext)
    semantic_context,  \* PebbloRetrievalQA.semantic_context (None or SemanticContext)
    search_kwargs,     \* retriever.search_kwargs (a dict, mutated in place)
    op,                \* the last chain operation that ran
    exc,               \* what that operation raised ("none" when it returned)
    prev,              \* [op, exc] of the operation before the last
    kw0,               \* search_kwargs as they were when the last operation began
    trace,             \* the steps the last _get_docs went through
    docs,              \* the documents the last _get_docs returned
    policy_cache,      \* PebbloRetrievalAPIWrapper.policy_cache, a pair
    loop,              \* position of the refresh thread inside _fetch_policy
    fetched,           \* the local `policy` of the cycle in progress
    before,            \* policy_cache when the cycle in progress began
    outcome,           \* how the last finished cycle ended
    fetch_call,        \* the get_policy_* call of the cycle in progress
    last_good,         \* the pair stored by the last cycle that fetched a policy
    policy_source,     \* PebbloRetrievalAPIWrapper.policy_source
    readers,           \* per query thread: position, tuple loaded, argument, result
    slack,             \* the Slack workspace as the API reports it, and the loader's arguments
    authorized_identities_map,  \* SlackAPILoader._authorized_identities_map
    slack_docs,        \* the documents SlackAPILoader.lazy_load has yielded
    slack_pc,          \* position of the Slack loader: "new", "constructed", "loaded"
    prompt_call,       \* the arguments and the environment of a send_prompt call
    cloud_request,     \* the payload the call posted to the cloud (None: no request)
    prompt_pc          \* position of the call: "new", then how it ended

chain_vars == <<vectorstore, auth_context, semantic_context, search_kwargs,
                op, exc, prev, kw0, trace, docs>>
cache_vars == <<policy_cache, loop, fetched, before, outcome, fetch_call,
                last_good, policy_source, readers>>
loader_vars == <<slack, authorized_identities_map, slack_docs, slack_pc>>
prompt_vars == <<prompt_call, cloud_request, prompt_pc>>
vars == <<chain_vars, cache_vars, loader_vars, prompt_vars>>

(***************************************************************************)
(* Values                                                                  *)
(***************************************************************************)
\* Python's None
None == [none |-> TRUE]

\* longest list of identities, topics or entities that is enumerated
MaxListLen == 2

Identities == {"Finance", "Legal"}
TopicNames == {"politics", "economy"}
EntityNames == {"ssn"}
Sources == {"a", "b"}

Range(s) == {s[i] : i \in DOMAIN s}

\* lists without repetition, of at most n elements of S
ListsOf(S, n) ==
    {s \in UNION {[1..k -> S] : k \in 0..n} : Cardinality(Range(s)) = Len(s)}

\* an empty dict
EmptyDict == [k \in {} |-> None]


(***************************************************************************)
(* Contexts                                                                *)
(***************************************************************************)
\* AuthContext values: user_id and the list of authorized identities
AuthContexts ==
    [user_id : {"u1"}, authorized_identities : ListsOf(Identities, MaxListLen)]

\* SemanticEntities / SemanticTopics values: a deny list
DenyLists(S) == [deny : ListsOf(S, MaxListLen)]

\* SemanticContext values: each section optional, at least one present
SemanticContexts ==
    {sc \in [pebblo_semantic_entities : DenyLists(EntityNames) \cup {None},
             pebblo_semantic_topics : DenyLists(TopicNames) \cup {None}] :
        sc.pebblo_semantic_entities # None \/ sc.pebblo_semantic_topics # None}

\* semantic_context.dict(): a dict with one key per field of the model,
\* whether the field holds a section or None
semantic_context_dict(sc) ==
    [pebblo_semantic_entities |-> sc.pebblo_semantic_entities,
     pebblo_semantic_topics |-> sc.pebblo_semantic_topics]

(***************************************************************************)
(* Documents of the vector store and the way a backend evaluates a filter  *)
(***************************************************************************)
Documents ==
    [authorized_identities : SUBSET Identities,
     pebblo_semantic_topics : SUBSET TopicNames,
     pebblo_semantic_entities : SUBSET EntityNames,
     source : Sources]

\* the values a document holds under a metadata key (a list, or one value)
MetadataValues(d, key) ==
    CASE key = "authorized_identities" -> d.authorized_identities
      [] key = "pebblo_semantic_topics" -> d.pebblo_semantic_topics
      [] key = "pebblo_semantic_entities" -> d.pebblo_semantic_entities
      [] key = "source" -> {d.source}
      [] OTHER -> {}

\* Pinecone: one clause of the flat filter, {"$in": [...]}, {"$nin": [...]}
\* or {"$eq": v}, against the values the document holds under the key
PineconeClauseMatches(clause, values) ==
    CASE clause.op = "$in" -> values \cap Range(clause.vals) # {}
      [] clause.op = "$nin" -> values \cap Range(clause.vals) = {}
      [] clause.op = "$eq" -> Range(clause.vals) \subseteq values
      [] OTHER -> FALSE

\* Pinecone: the keys of the flat filter are and-ed
PineconeMatches(filter, d) ==
    \A key \in DOMAIN filter :
        PineconeClauseMatches(filter[key], MetadataValues(d, key))

\* rest.Filter(must, must_not, should); a branch that is None or [] is <<>>
QdrantFilter(must, must_not, should) ==
    [must |-> must, must_not |-> must_not, should |-> should]

\* isinstance(existing_filter, rest.Filter)
IsQdrantFilter(f) == DOMAIN f = {"must", "must_not", "should"}

\* rest.FieldCondition(key=key, match=rest.MatchAny(any=values))
FieldCondition(key, values) == [key |-> key, any |-> values]

\* hasattr(condition, "key")
HasKey(condition) == "key" \in DOMAIN condition

\* a condition without a key: a nested rest.Filter() that constrains nothing
NestedFilter == [nested |-> QdrantFilter(<<>>, <<>>, <<>>)]

\* the payload key "metadata.<name>" addresses the metadata field <name>
PayloadField(key) ==
    CASE key = "metadata.authorized_identities" -> "authorized_identities"
      [] key = "metadata.pebblo_semantic_topics" -> "pebblo_semantic_topics"
      [] key = "metadata.pebblo_semantic_entities" -> "pebblo_semantic_entities"
      [] key = "metadata.source" -> "source"
      [] OTHER -> "unknown"

\* Qdrant: MatchAny holds when the field holds at least one of the values
QdrantConditionMatches(condition, d) ==
    IF HasKey(condition)
    THEN MetadataValues(d, PayloadField(condition.key)) \cap Range(condition.any) # {}
    ELSE TRUE

\* Qdrant: every must, no must_not, and one should if there is any
QdrantMatches(filter, d) ==
    /\ \A i \in DOMAIN filter.must : QdrantConditionMatches(filter.must[i], d)
    /\ \A i \in DOMAIN filter.must_not : ~QdrantConditionMatches(filter.must_not[i], d)
    /\ \/ filter.should = <<>>
       \/ \E i \in DOMAIN filter.should : QdrantConditionMatches(filter.should[i], d)

\* vectorstore.similarity_search(query, **search_kwargs): the documents
\* the backend returns under the filter of the search options, if any
similarity_search(store, kwargs) ==
    IF "filter" \notin DOMAIN kwargs THEN Documents
    ELSE IF store = "Pinecone"
         THEN {d \in Documents : PineconeMatches(kwargs.filter, d)}
         ELSE {d \in Documents : QdrantMatches(kwargs.filter, d)}

(***************************************************************************)
(* The filter compiler of PebbloRetrievalQA.  Each operator takes the      *)
(* search options and returns them as the method leaves them, with the     *)
(* exception it raised ("none" when it returned).                          *)
(***************************************************************************)
Returned(kwargs) == [kw |-> kwargs, exc |-> "none"]
Raised(kwargs, error) == [kw |-> kwargs, exc |-> error]

\* search_kwargs.setdefault("filter", {})[key] = clause
SetFilterKey(kwargs, key, clause) ==
    LET filter == IF "filter" \in DOMAIN kwargs THEN kwargs.filter ELSE EmptyDict
    IN  ("filter" :> ((key :> clause) @@ filter)) @@ kwargs

\* search_kwargs["filter"] = filter
SetFilter(kwargs, filter) == ("filter" :> filter) @@ kwargs

\* variant: the clause is compiled from the caller's user_id instead of
\* the identities the caller is authorized for
apply_pinecone_authorization_filter_user_id(kwargs, auth) ==
    IF "filter" \in DOMAIN kwargs /\ "authorized_identities" \in DOMAIN kwargs.filter
    THEN Raised(kwargs, "ValueError")
    ELSE IF auth # None
         THEN Returned(SetFilterKey(kwargs, "authorized_identities",
                  [op |-> "$in", vals |-> <<auth.user_id>>]))
         ELSE Returned(kwargs)

apply_pinecone_authorization_filter(kwargs, auth) ==
    IF "filter" \in DOMAIN kwargs /\ "authorized_identities" \in DOMAIN kwargs.filter
    THEN Raised(kwargs, "ValueError")
    ELSE IF auth # None
         THEN Returned(SetFilterKey(kwargs, "authorized_identities",
                  [op |-> "$in", vals |-> auth.authorized_identities]))
         ELSE Returned(kwargs)

apply_pinecone_semantic_filter(kwargs, sc) ==
    IF "filter" \in DOMAIN kwargs /\ sc # None
    THEN LET semantic == semantic_context_dict(sc)
         IN  IF "pebblo_semantic_topics" \in DOMAIN semantic
             THEN Raised(kwargs, "ValueError")
             ELSE IF "pebblo_semantic_entities" \in DOMAIN semantic
             THEN Raised(kwargs, "ValueError")
             ELSE IF semantic.pebblo_semantic_topics = None
             THEN Raised(kwargs, "TypeError")
             ELSE LET with_topics ==
                          SetFilterKey(kwargs, "pebblo_semantic_topics",
                              [op |-> "$nin",
                               vals |-> semantic.pebblo_semantic_topics.deny])
                  IN  IF semantic.pebblo_semantic_entities = None
                      THEN Raised(with_topics, "TypeError")
                      ELSE Returned(
                               SetFilterKey(with_topics, "pebblo_semantic_entities",
                                   [op |-> "$nin",
                                    vals |-> semantic.pebblo_semantic_entities.deny]))
    ELSE Returned(kwargs)

\* variant: the identity condition is appended to must without looking for
\* one that is already there
apply_qdrant_authorization_filter_stacking(kwargs, auth) ==
    IF auth = None THEN Returned(kwargs)
    ELSE
    LET condition ==
            FieldCondition("metadata.authorized_identities", auth.authorized_identities)
    IN  IF "filter" \in DOMAIN kwargs
        THEN IF IsQdrantFilter(kwargs.filter)
             THEN Returned(SetFilter(kwargs,
                      [kwargs.filter EXCEPT !.must = Append(@, condition)]))
             ELSE Raised(kwargs, "TypeError")
        ELSE Returned(SetFilter(kwargs, QdrantFilter(<<condition>>, <<>>, <<>>)))

\* a variant that replaces the must branch instead of appending to it
apply_qdrant_authorization_filter_replacing_must(kwargs, auth) ==
    IF auth = None THEN Returned(kwargs)
    ELSE
    LET identity_filter ==
            FieldCondition("metadata.authorized_identities", auth.authorized_identities)
    IN  IF "filter" \in DOMAIN kwargs
        THEN IF IsQdrantFilter(kwargs.filter)
             THEN IF \E i \in DOMAIN kwargs.filter.must :
                         /\ HasKey(kwargs.filter.must[i])
                         /\ kwargs.filter.must[i].key = "metadata.authorized_identities"
                  THEN Raised(kwargs, "ValueError")
                  ELSE Returned(SetFilter(kwargs,
                           [kwargs.filter EXCEPT !.must = <<identity_filter>>]))
             ELSE Raised(kwargs, "TypeError")
        ELSE Returned(SetFilter(kwargs, QdrantFilter(<<identity_filter>>, <<>>, <<>>)))

apply_qdrant_authorization_filter(kwargs, auth) ==
    IF auth = None THEN Returned(kwargs)
    ELSE
    LET identity_enforcement_filter ==
            FieldCondition("metadata.authorized_identities", auth.authorized_identities)
    IN  IF "filter" \in DOMAIN kwargs
        THEN LET existing_filter == kwargs.filter
             IN  IF IsQdrantFilter(existing_filter)
                 THEN IF existing_filter.must # <<>>
                      THEN IF \E i \in DOMAIN existing_filter.must :
                                  /\ HasKey(existing_filter.must[i])
                                  /\ existing_filter.must[i].key
                                         = "metadata.authorized_identities"
                           THEN Raised(kwargs, "ValueError")
                           ELSE Returned(SetFilter(kwargs,
                                    [existing_filter EXCEPT !.must =
                                        Append(@, identity_enforcement_filter)]))
                      ELSE Returned(SetFilter(kwargs,
                               [existing_filter EXCEPT !.must =
                                   <<identity_enforcement_filter>>]))
                 ELSE Raised(kwargs, "TypeError")
        ELSE Returned(SetFilter(kwargs,
                 QdrantFilter(<<identity_enforcement_filter>>, <<>>, <<>>)))

\* a variant that excludes a default topic when no semantic context is set
qdrant_semantic_filters_default_deny(sc) ==
    IF sc = None
    THEN <<FieldCondition("metadata.pebblo_semantic_topics", <<"politics">>)>>
    ELSE (IF sc.pebblo_semantic_topics # None
          THEN <<FieldCondition("metadata.pebblo_semantic_topics",
                                sc.pebblo_semantic_topics.deny)>>
          ELSE <<>>)
         \o
         (IF sc.pebblo_semantic_entities # None
          THEN <<FieldCondition("metadata.pebblo_semantic_entities",
                                sc.pebblo_semantic_entities.deny)>>
          ELSE <<>>)

\* the conditions lines 229-252 collect: one per section the context holds
qdrant_semantic_filters(sc) ==
    (IF sc # None /\ sc.pebblo_semantic_topics # None
     THEN <<FieldCondition("metadata.pebblo_semantic_topics",
                           sc.pebblo_semantic_topics.deny)>>
     ELSE <<>>)
    \o
    (IF sc # None /\ sc.pebblo_semantic_entities # None
     THEN <<FieldCondition("metadata.pebblo_semantic_entities",
                           sc.pebblo_semantic_entities.deny)>>
     ELSE <<>>)

\* a variant that extends must_not without looking for an existing clause
apply_qdrant_semantic_filter_merging(kwargs, sc) ==
    LET semantic_filters == qdrant_semantic_filters(sc)
    IN  IF "filter" \in DOMAIN kwargs
        THEN IF IsQdrantFilter(kwargs.filter)
             THEN Returned(SetFilter(kwargs,
                      [kwargs.filter EXCEPT !.must_not = @ \o semantic_filters]))
             ELSE Raised(kwargs, "TypeError")
        ELSE Returned(SetFilter(kwargs, QdrantFilter(<<>>, semantic_filters, <<>>)))

apply_qdrant_semantic_filter(kwargs, sc) ==
    LET semantic_filters == qdrant_semantic_filters(sc)
    IN  IF "filter" \in DOMAIN kwargs
        THEN LET existing_filter == kwargs.filter
             IN  IF IsQdrantFilter(existing_filter)
                 THEN IF existing_filter.must_not # <<>>
                      THEN IF \E i \in DOMAIN existing_filter.must_not :
                                  /\ HasKey(existing_filter.must_not[i])
                                  /\ existing_filter.must_not[i].key \in
                                         {"metadata.pebblo_semantic_topics",
                                          "metadata.pebblo_semantic_entities"}
                           THEN Raised(kwargs, "ValueError")
                           ELSE Returned(SetFilter(kwargs,
                                    [existing_filter EXCEPT !.must_not =
                                        @ \o semantic_filters]))
                      ELSE Returned(SetFilter(kwargs,
                               [existing_filter EXCEPT !.must_not = semantic_filters]))
                 ELSE Raised(kwargs, "TypeError")
        ELSE Returned(SetFilter(kwargs, QdrantFilter(<<>>, semantic_filters, <<>>)))

\* a variant that treats a missing auth context as one without identities
set_identity_enforcement_filter_empty_identities(store, kwargs, auth) ==
    LET given == IF auth = None
                 THEN [user_id |-> "", authorized_identities |-> <<>>]
                 ELSE auth
    IN  IF store = "Pinecone" THEN apply_pinecone_authorization_filter(kwargs, given)
        ELSE IF store = "Qdrant" THEN apply_qdrant_authorization_filter(kwargs, given)
        ELSE Raised(kwargs, "ValueError")

\* dispatch on the kind of the vectorstore (lines 90-100)
set_identity_enforcement_filter(store, kwargs, auth) ==
    IF store = "Pinecone" THEN apply_pinecone_authorization_filter(kwargs, auth)
    ELSE IF store = "Qdrant" THEN apply_qdrant_authorization_filter(kwargs, auth)
    ELSE Raised(kwargs, "ValueError")

\* dispatch on the kind of the vectorstore (lines 109-119)
set_semantic_enforcement_filter(store, kwargs, sc) ==
    IF store = "Pinecone" THEN apply_pinecone_semantic_filter(kwargs, sc)
    ELSE IF store = "Qdrant" THEN apply_qdrant_semantic_filter(kwargs, sc)
    ELSE Raised(kwargs, "ValueError")

\* a variant that searches whether or not the semantic step raised
get_docs_searching_after_error(store, kwargs, auth, sc) ==
    LET identity == set_identity_enforcement_filter(store, kwargs, auth)
        semantic == set_semantic_enforcement_filter(store, identity.kw, sc)
    IN  IF identity.exc # "none"
        THEN [kw |-> identity.kw, exc |-> identity.exc,
              trace |-> <<"identity">>, docs |-> {}]
        ELSE [kw |-> semantic.kw, exc |-> semantic.exc,
              trace |-> <<"identity", "semantic", "search">>,
              docs |-> similarity_search(store, semantic.kw)]

\* _get_docs: identity enforcement, then semantic enforcement, then the
\* search of the underlying retriever; an exception ends it where it is raised
get_docs(store, kwargs, auth, sc) ==
    LET identity == set_identity_enforcement_filter(store, kwargs, auth)
    IN  IF identity.exc # "none"
        THEN [kw |-> identity.kw, exc |-> identity.exc,
              trace |-> <<"identity">>, docs |-> {}]
        ELSE
        LET semantic == set_semantic_enforcement_filter(store, identity.kw, sc)
        IN  IF semantic.exc # "none"
            THEN [kw |-> semantic.kw, exc |-> semantic.exc,
                  trace |-> <<"identity", "semantic">>, docs |-> {}]
            ELSE [kw |-> semantic.kw, exc |-> "none",
                  trace |-> <<"identity", "semantic", "search">>,
                  docs |-> similarity_search(store, semantic.kw)]

\* a variant of _aget_docs that falls back to the synchronous path
aget_docs_falling_back(store, kwargs, auth, sc) ==
    get_docs(store, kwargs, auth, sc)

\* _aget_docs: raises at once
aget_docs(store, kwargs, auth, sc) ==
    [kw |-> kwargs, exc |-> "NotImplementedError", trace |-> <<>>, docs |-> {}]

(***************************************************************************)
(* The filters a caller may have put into the search options               *)
(***************************************************************************)
\* clauses of a caller's Pinecone filter, by key
PineconeCallerClause(key) ==
    CASE key = "source" -> [op |-> "$eq", vals |-> <<"a">>]
      [] key = "authorized_identities" -> [op |-> "$in", vals |-> <<"Legal">>]
      [] key = "pebblo_semantic_topics" -> [op |-> "$nin", vals |-> <<"economy">>]

PineconeCallerFilters ==
    {[key \in keys |-> PineconeCallerClause(key)] :
        keys \in SUBSET {"source", "authorized_identities", "pebblo_semantic_topics"}}

QdrantCallerFilters ==
    {QdrantFilter(must, must_not, should) :
        must \in {<<>>,
                  <<FieldCondition("metadata.source", <<"a">>)>>,
                  <<NestedFilter>>,
                  <<FieldCondition("metadata.authorized_identities", <<"Legal">>)>>,
                  <<FieldCondition("metadata.source", <<"a">>),
                    FieldCondition("metadata.authorized_identities", <<"Legal">>)>>,
                  <<FieldCondition("metadata.pebblo_semantic_topics",
                                   <<"economy">>)>>},
        must_not \in {<<>>,
                      <<FieldCondition("metadata.source", <<"b">>)>>,
                      <<FieldCondition("metadata.pebblo_semantic_topics",
                                       <<"economy">>)>>},
        should \in {<<>>, <<FieldCondition("metadata.source", <<"a">>)>>}}

\* the search options a retriever may be built with: none, a filter of the
\* backend's dialect or, for Qdrant, a filter given as a dict (deprecated)
CallerSearchKwargs(store) ==
    {EmptyDict} \cup
    (IF store = "Pinecone"
     THEN {[filter |-> f] : f \in PineconeCallerFilters}
     ELSE IF store = "Qdrant"
     THEN {[filter |-> f] : f \in QdrantCallerFilters}
          \cup {[filter |-> [source |-> "a"]]}
     ELSE {})

(***************************************************************************)
(* The chain as a state machine                                            *)
(***************************************************************************)
SUPPORTED_VECTORSTORES == {"Pinecone", "Qdrant"}

\* the kinds of vectorstore a retriever may wrap
Vectorstores == SUPPORTED_VECTORSTORES \cup {"UnsupportedVectorStore"}

\* a variant of the validator that accepts every vectorstore
validate_vectorstore_accepting(store) == "none"

\* the validator of the retriever field: what it raises
validate_vectorstore(store) ==
    IF store \in SUPPORTED_VECTORSTORES THEN "none" ELSE "ValueError"

\* a value given as auth_context that is not an AuthContext
InvalidAuthContext == [invalid |-> "invalid_auth_context"]

\* the validation of the field auth_context: Optional[AuthContext]
validate_auth_context(auth) ==
    IF auth = None \/ auth \in AuthContexts THEN "none" ELSE "ValueError"

\* a chain object exists: the constructor has run and did not raise
Constructed == op # "new" /\ ~(op = "init" /\ exc # "none")

\* no Slack loader has been built and no prompt has been sent
NoLoader ==
    /\ slack = None
    /\ authorized_identities_map = None
    /\ slack_docs = <<>>
    /\ slack_pc = "none"

NoPrompt ==
    /\ prompt_call = None
    /\ cloud_request = None
    /\ prompt_pc = "none"

NoLoaderNoPrompt == NoLoader /\ NoPrompt

\* the arguments of the constructor, before it runs
InitChain ==
    /\ vectorstore \in Vectorstores
    /\ auth_context \in AuthContexts \cup {None, InvalidAuthContext}
    /\ semantic_context \in SemanticContexts \cup {None}
    /\ search_kwargs \in CallerSearchKwargs(vectorstore)
    /\ op = "new"
    /\ exc = "none"
    /\ prev = [op |-> "new", exc |-> "none"]
    /\ kw0 = search_kwargs
    /\ trace = <<>>
    /\ docs = {}

\* PebbloRetrievalQA(...): the validators run, the object exists if none raises
Construct ==
    /\ op = "new"
    /\ op' = "init"
    /\ exc' = IF validate_vectorstore(vectorstore) # "none"
              THEN validate_vectorstore(vectorstore)
              ELSE validate_auth_context(auth_context)
    /\ prev' = [op |-> op, exc |-> exc]
    /\ kw0' = search_kwargs
    /\ trace' = <<>>
    /\ docs' = {}
    /\ UNCHANGED <<vectorstore, auth_context, semantic_context, search_kwargs>>
    /\ UNCHANGED cache_vars
    /\ UNCHANGED <<loader_vars, prompt_vars>>

\* a direct call of set_identity_enforcement_filter
SetIdentityEnforcementFilter ==
    LET r == set_identity_enforcement_filter(vectorstore, search_kwargs, auth_context)
    IN  /\ Constructed
        /\ search_kwargs' = r.kw
        /\ exc' = r.exc
        /\ op' = "set_identity_enforcement_filter"
        /\ prev' = [op |-> op, exc |-> exc]
        /\ kw0' = search_kwargs
        /\ trace' = <<"identity">>
        /\ docs' = {}
        /\ UNCHANGED <<vectorstore, auth_context, semantic_context>>
        /\ UNCHANGED cache_vars
        /\ UNCHANGED <<loader_vars, prompt_vars>>

\* a direct call of set_semantic_enforcement_filter
SetSemanticEnforcementFilter ==
    LET r == set_semantic_enforcement_filter(vectorstore, search_kwargs,
                                             semantic_context)
    IN  /\ Constructed
        /\ search_kwargs' = r.kw
        /\ exc' = r.exc
        /\ op' = "set_semantic_enforcement_filter"
        /\ prev' = [op |-> op, exc |-> exc]
        /\ kw0' = search_kwargs
        /\ trace' = <<"semantic">>
        /\ docs' = {}
        /\ UNCHANGED <<vectorstore, auth_context, semantic_context>>
        /\ UNCHANGED cache_vars
        /\ UNCHANGED <<loader_vars, prompt_vars>>

\* a variant in which a query that raises ends the refresh thread
GetDocs_stopping_refresh ==
    LET r == get_docs(vectorstore, search_kwargs, auth_context, semantic_context)
    IN  /\ Constructed
        /\ search_kwargs' = r.kw
        /\ exc' = r.exc
        /\ op' = "_get_docs"
        /\ prev' = [op |-> op, exc |-> exc]
        /\ kw0' = search_kwargs
        /\ trace' = r.trace
        /\ docs' = r.docs
        /\ loop' = IF r.exc # "none" THEN "terminated" ELSE loop
        /\ UNCHANGED <<vectorstore, auth_context, semantic_context>>
        /\ UNCHANGED <<policy_cache, fetched, before, outcome, fetch_call,
                       last_good, policy_source, readers>>
        /\ UNCHANGED <<loader_vars, prompt_vars>>

\* one query: a call of _get_docs
GetDocs ==
    LET r == get_docs(vectorstore, search_kwargs, auth_context, semantic_context)
    IN  /\ Constructed
        /\ search_kwargs' = r.kw
        /\ exc' = r.exc
        /\ op' = "_get_docs"
        /\ prev' = [op |-> op, exc |-> exc]
        /\ kw0' = search_kwargs
        /\ trace' = r.trace
        /\ docs' = r.docs
        /\ UNCHANGED <<vectorstore, auth_context, semantic_context>>
        /\ UNCHANGED cache_vars
        /\ UNCHANGED <<loader_vars, prompt_vars>>

AGetDocs ==
    LET r == aget_docs(vectorstore, search_kwargs, auth_context, semantic_context)
    IN  /\ Constructed
        /\ search_kwargs' = r.kw
        /\ exc' = r.exc
        /\ op' = "_aget_docs"
        /\ prev' = [op |-> op, exc |-> exc]
        /\ kw0' = search_kwargs
        /\ trace' = r.trace
        /\ docs' = r.docs
        /\ UNCHANGED <<vectorstore, auth_context, semantic_context>>
        /\ UNCHANGED cache_vars
        /\ UNCHANGED <<loader_vars, prompt_vars>>

(***************************************************************************)
(* The policy cache of PebbloRetrievalAPIWrapper                           *)
(***************************************************************************)
\* number of query threads that read the cache while the refresh thread runs
MaxReaders == 2

UserIds == {"u1", "u2"}

\* PolicyConfig documents a tenant may publish: identity.superuser, and the
\* optional sections entity and semantics with deny and deny_groups
PolicyA ==
    [identity |-> [superuser |-> <<[name |-> "u1"]>>],
     entity |-> [deny_groups |-> <<"pii">>, deny |-> <<"ssn">>],
     semantics |-> [deny_groups |-> <<>>, deny |-> <<"politics">>]]

PolicyB ==
    [identity |-> [superuser |-> <<>>],
     entity |-> None,
     semantics |-> [deny_groups |-> <<"markets">>, deny |-> <<"economy">>]]

PolicyNoSections ==
    [identity |-> [superuser |-> <<>>], entity |-> None, semantics |-> None]

Policies == {PolicyA, PolicyB, PolicyNoSections}

\* the sections a policy may hold: none, or deny groups and a deny list
PolicySections(groups, names) ==
    {None} \cup [deny_groups : ListsOf(groups, MaxListLen),
                 deny : ListsOf(names, MaxListLen)]

\* policies over every combination of sections, for the derivation
DerivePolicies ==
    [identity : {[superuser |-> <<>>]},
     entity : PolicySections({"pii"}, {"ssn", "pii"}),
     semantics : PolicySections({"markets"}, {"politics", "markets"})]

\* what the policy file is when a cycle reads it: missing, not a JSON
\* PolicyConfig, or a PolicyConfig
PolicyFiles ==
    {[exists |-> FALSE], [exists |-> TRUE, parses |-> FALSE]}
    \cup {[exists |-> TRUE, parses |-> TRUE, data |-> p] : p \in Policies}

\* what make_request gives a cycle: None (the server was not reached or the
\* request failed), or a response with a status and a body
PolicyResponses ==
    {None}
    \cup {[status_code |-> code, parses |-> FALSE] : code \in {200, 500}}
    \cup {[status_code |-> code, parses |-> TRUE, data |-> p] :
             code \in {200, 500}, p \in Policies}

NoException(value) == [value |-> value, exc |-> "none"]
Exception(error) == [value |-> None, exc |-> error]

get_policy_from_file(file) ==
    IF file.exists
    THEN IF file.parses THEN NoException(file.data)
         ELSE Exception("ValueError")
    ELSE NoException(None)

get_policy_from_api(response) ==
    IF response # None /\ response.status_code = 200
    THEN IF response.parses THEN NoException(response.data)
         ELSE Exception("ValueError")
    ELSE NoException(None)

get_entities_from_groups(entity_groups) ==
    [i \in 1..Len(entity_groups) |-> entity_groups[i]]

get_topics_from_groups(topic_groups) ==
    [i \in 1..Len(topic_groups) |-> topic_groups[i]]

\* a variant in which the functions return the list they were given
returns_its_argument_aliasing(function) == TRUE

\* whether get_entities_from_groups / get_topics_from_groups return the list
\* they were given: they append to a list they create (entities = [],
\* topics = [])
returns_its_argument(function) == FALSE

\* the policy object after _generate_semantic_context(policy): extend is
\* called on the list the function returned, and lengthens a list of the
\* policy only if that list is the policy's own
policy_after_generate_semantic_context(policy) ==
    [policy EXCEPT
        !.entity =
            IF @ # None /\ returns_its_argument("get_entities_from_groups")
            THEN [@ EXCEPT !.deny_groups = @ \o policy.entity.deny]
            ELSE @,
        !.semantics =
            IF @ # None /\ returns_its_argument("get_topics_from_groups")
            THEN [@ EXCEPT !.deny_groups = @ \o policy.semantics.deny]
            ELSE @]

\* a variant that keeps the explicit deny lists only
generate_semantic_context_without_groups(policy) ==
    IF policy.entity = None /\ policy.semantics = None
    THEN Exception("ValueError")
    ELSE NoException(
        [pebblo_semantic_entities |->
             IF policy.entity # None THEN [deny |-> policy.entity.deny] ELSE None,
         pebblo_semantic_topics |->
             IF policy.semantics # None THEN [deny |-> policy.semantics.deny]
             ELSE None])

\* SemanticContext(**data): the constructor, which rejects a context that
\* holds neither section
NewSemanticContext(data) ==
    IF data.pebblo_semantic_entities = None /\ data.pebblo_semantic_topics = None
    THEN Exception("ValueError")
    ELSE NoException(data)

generate_semantic_context(policy) ==
    NewSemanticContext(
        [pebblo_semantic_entities |->
             IF policy.entity # None
             THEN [deny |-> get_entities_from_groups(policy.entity.deny_groups)
                            \o policy.entity.deny]
             ELSE None,
         pebblo_semantic_topics |->
             IF policy.semantics # None
             THEN [deny |-> get_topics_from_groups(policy.semantics.deny_groups)
                            \o policy.semantics.deny]
             ELSE None])

\* variant: the two halves are stored one after the other, so the policy
\* is published while the semantic context is still the previous one
update_local_policy_cache_halves(cache, policy) ==
    NoException(<<policy, cache[2]>>)

\* a variant of _update_local_policy_cache that keeps the pair the cache
\* already holds
update_local_policy_cache_keeping_first(cache, policy) ==
    IF cache[1] # None THEN NoException(cache)
    ELSE IF policy # None
         THEN NoException(<<policy, generate_semantic_context(policy).value>>)
         ELSE NoException(<<None, None>>)

\* _update_local_policy_cache: the pair the method stores, or the exception
\* the derivation raises before anything is stored
update_local_policy_cache(cache, policy) ==
    IF policy # None
    THEN LET derived == generate_semantic_context(policy)
         IN  IF derived.exc # "none" THEN Exception(derived.exc)
             ELSE NoException(<<policy_after_generate_semantic_context(policy),
                                derived.value>>)
    ELSE NoException(<<None, None>>)

\* get_semantic_context on the tuple the attribute load gave
get_semantic_context(cache) == cache[2]

\* a variant that never looks at the superusers of the policy
enforce_identity_policy_ignoring_superusers(cache, auth) == auth

\* enforce_identity_policy on the tuple the attribute load gave
enforce_identity_policy(cache, auth) ==
    IF auth = None THEN None
    ELSE LET policy == cache[1]
             superusers == IF policy # None THEN policy.identity.superuser ELSE <<>>
         IN  IF auth.user_id \in {superusers[i].name : i \in DOMAIN superusers}
             THEN None
             ELSE auth

Readers == 1..MaxReaders

\* the auth contexts a query thread passes to enforce_identity_policy
ReaderAuthContexts ==
    {None} \cup [user_id : UserIds, authorized_identities : {<<"Finance">>}]

IdleReader ==
    [pc |-> "idle", method |-> "none", snap |-> <<None, None>>, auth |-> None,
     result |-> None]

\* a variant of the except clause that lets the exception end the thread
after_exception_escaping(error) == "terminated"

\* except Exception: the warning is logged and the loop goes on to its sleep
after_exception(error) == "sleep"

InitCache ==
    /\ policy_cache = <<None, None>>
    /\ loop = "fetch"
    /\ fetched = None
    /\ before = <<None, None>>
    /\ outcome = "none"
    /\ fetch_call = None
    /\ last_good = <<None, None>>
    /\ policy_source \in {"file", "cloud"}
    /\ readers = [r \in Readers |-> IdleReader]

\* the try block of _fetch_policy up to the call of _update_local_policy_cache
FetchPolicy ==
    /\ loop = "fetch"
    /\ before' = policy_cache
    /\ \E input \in IF policy_source = "file" THEN PolicyFiles
                    ELSE PolicyResponses :
           LET got == IF policy_source = "file"
                      THEN get_policy_from_file(input)
                      ELSE get_policy_from_api(input)
           IN  /\ fetch_call' = [input |-> input, result |-> got]
               /\ IF got.exc # "none"
                  THEN /\ loop' = after_exception(got.exc)
                       /\ outcome' = "raised"
                       /\ fetched' = None
                  ELSE /\ loop' = "update"
                       /\ fetched' = got.value
                       /\ UNCHANGED outcome
    /\ UNCHANGED <<policy_cache, last_good, policy_source, readers>>
    /\ UNCHANGED chain_vars
    /\ UNCHANGED <<loader_vars, prompt_vars>>

\* _update_local_policy_cache(policy), inside the same try block
UpdateLocalPolicyCache ==
    /\ loop = "update"
    /\ LET stored == update_local_policy_cache(policy_cache, fetched)
       IN  IF stored.exc # "none"
           THEN /\ outcome' = "raised"
                /\ loop' = after_exception(stored.exc)
                /\ UNCHANGED <<policy_cache, last_good>>
           ELSE /\ policy_cache' = stored.value
                /\ outcome' = IF fetched = None THEN "absent" ELSE "fetched"
                /\ last_good' = IF fetched = None THEN last_good ELSE stored.value
                /\ loop' = "sleep"
    /\ fetched' = None
    /\ UNCHANGED <<before, fetch_call, policy_source, readers>>
    /\ UNCHANGED chain_vars
    /\ UNCHANGED <<loader_vars, prompt_vars>>

\* time.sleep(_POLICY_REFRESH_INTERVAL_SEC), then the next cycle
Sleep ==
    /\ loop = "sleep"
    /\ loop' = "fetch"
    /\ fetch_call' = None
    /\ UNCHANGED <<policy_cache, fetched, before, outcome, last_good,
                   policy_source, readers>>
    /\ UNCHANGED chain_vars
    /\ UNCHANGED <<loader_vars, prompt_vars>>

\* a variant in which a read waits until the refresh cycle has finished
TestPolicyCache_waiting(r) ==
    /\ loop = "sleep"
    /\ readers[r].pc = "idle"
    /\ readers' = [readers EXCEPT ![r] =
           [pc |-> "index", method |-> "get_semantic_context",
            snap |-> policy_cache, auth |-> None, result |-> None]]
    /\ UNCHANGED <<policy_cache, loop, fetched, before, outcome, fetch_call,
                   last_good, policy_source>>
    /\ UNCHANGED chain_vars
    /\ UNCHANGED <<loader_vars, prompt_vars>>

\* get_semantic_context, first load: the test `if self.policy_cache`
TestPolicyCache(r) ==
    /\ readers[r].pc = "idle"
    /\ readers' = [readers EXCEPT ![r] =
           IF policy_cache # <<>>
           THEN [pc |-> "index", method |-> "get_semantic_context",
                 snap |-> policy_cache, auth |-> None, result |-> None]
           ELSE [pc |-> "idle", method |-> "get_semantic_context",
                 snap |-> policy_cache, auth |-> None, result |-> None]]
    /\ UNCHANGED <<policy_cache, loop, fetched, before, outcome, fetch_call,
                   last_good, policy_source>>
    /\ UNCHANGED chain_vars
    /\ UNCHANGED <<loader_vars, prompt_vars>>

\* get_semantic_context, second load: self.policy_cache[1]
GetSemanticContext(r) ==
    /\ readers[r].pc = "index"
    /\ readers' = [readers EXCEPT ![r] =
           [pc |-> "idle", method |-> "get_semantic_context",
            snap |-> policy_cache, auth |-> None,
            result |-> get_semantic_context(policy_cache)]]
    /\ UNCHANGED <<policy_cache, loop, fetched, before, outcome, fetch_call,
                   last_good, policy_source>>
    /\ UNCHANGED chain_vars
    /\ UNCHANGED <<loader_vars, prompt_vars>>

\* enforce_identity_policy(auth_context): one load of self.policy_cache
EnforceIdentityPolicy(r) ==
    /\ readers[r].pc = "idle"
    /\ \E auth \in ReaderAuthContexts :
           readers' = [readers EXCEPT ![r] =
               [pc |-> "idle", method |-> "enforce_identity_policy",
                snap |-> policy_cache, auth |-> auth,
                result |-> enforce_identity_policy(policy_cache, auth)]]
    /\ UNCHANGED <<policy_cache, loop, fetched, before, outcome, fetch_call,
                   last_good, policy_source>>
    /\ UNCHANGED chain_vars
    /\ UNCHANGED <<loader_vars, prompt_vars>>

NextPolicy ==
    \/ FetchPolicy
    \/ UpdateLocalPolicyCache
    \/ Sleep
    \/ \E r \in Readers : TestPolicyCache(r)
    \/ \E r \in Readers : GetSemanticContext(r)
    \/ \E r \in Readers : EnforceIdentityPolicy(r)

(***************************************************************************)
(* Specifications                                                          *)
(***************************************************************************)
\* the retrieval chain, with the policy thread not yet scheduled
Init == InitChain /\ InitCache /\ policy_source = "file" /\ NoLoaderNoPrompt

Next ==
    \/ Construct
    \/ SetIdentityEnforcementFilter
    \/ SetSemanticEnforcementFilter
    \/ GetDocs
    \/ AGetDocs

Spec == Init /\ [][Next]_vars

\* the chain of the unit tests: Pinecone, no filter, no semantic context
InitTestChain ==
    /\ vectorstore = "Pinecone"
    /\ auth_context = None
    /\ semantic_context = None
    /\ search_kwargs = EmptyDict
    /\ op = "init"
    /\ exc = "none"
    /\ prev = [op |-> "init", exc |-> "none"]
    /\ kw0 = search_kwargs
    /\ trace = <<>>
    /\ docs = {}

InitPolicy == InitTestChain /\ InitCache /\ NoLoaderNoPrompt

\* the policy cache: the refresh thread and the threads that read the cache
SpecPolicy == InitPolicy /\ [][NextPolicy]_vars

\* one derivation: a cycle has fetched a policy from the file and is about
\* to call _update_local_policy_cache; query threads read the cache
InitDerive ==
    /\ InitTestChain
    /\ policy_cache = <<None, None>>
    /\ loop = "update"
    /\ fetched \in DerivePolicies
    /\ before = <<None, None>>
    /\ outcome = "none"
    /\ fetch_call = [input |-> [exists |-> TRUE, parses |-> TRUE, data |-> fetched],
                     result |-> NoException(fetched)]
    /\ last_good = <<None, None>>
    /\ policy_source = "file"
    /\ readers = [r \in Readers |-> IdleReader]
    /\ NoLoaderNoPrompt

NextDerive ==
    \/ UpdateLocalPolicyCache
    \/ \E r \in Readers : TestPolicyCache(r)
    \/ \E r \in Readers : GetSemanticContext(r)

SpecDerive == InitDerive /\ [][NextDerive]_vars

\* the refresh thread together with the query path: a Qdrant chain whose
\* queries succeed, conflict or meet a dict filter, and one thread that
\* reads the cache
InitQueryChain ==
    /\ vectorstore = "Qdrant"
    /\ auth_context = [user_id |-> "u1", authorized_identities |-> <<"Finance">>]
    /\ semantic_context = None
    /\ search_kwargs \in
           {EmptyDict,
            [filter |-> [source |-> "a"]],
            [filter |-> QdrantFilter(
                <<FieldCondition("metadata.authorized_identities", <<"Legal">>)>>,
                <<>>, <<>>)]}
    /\ op = "init"
    /\ exc = "none"
    /\ prev = [op |-> "init", exc |-> "none"]
    /\ kw0 = search_kwargs
    /\ trace = <<>>
    /\ docs = {}

InitQueries ==
    InitQueryChain /\ InitCache /\ policy_source = "file" /\ NoLoaderNoPrompt

NextQueries ==
    \/ FetchPolicy
    \/ UpdateLocalPolicyCache
    \/ Sleep
    \/ TestPolicyCache(1)
    \/ GetSemanticContext(1)
    \/ EnforceIdentityPolicy(1)
    \/ GetDocs
    \/ AGetDocs

SpecQueries == InitQueries /\ [][NextQueries]_vars

\* the refresh thread alone, every query thread idle; the thread is scheduled
\* as long as the process lives: each of its steps, once it can be taken, is
\* taken
NextRefresh ==
    \/ FetchPolicy
    \/ UpdateLocalPolicyCache
    \/ Sleep

FairSpecRefresh ==
    /\ InitPolicy
    /\ [][NextRefresh]_vars
    /\ WF_vars(FetchPolicy)
    /\ WF_vars(UpdateLocalPolicyCache)
    /\ WF_vars(Sleep)

(***************************************************************************)
(* Properties                                                              *)
(***************************************************************************)
\* the pairs a refresh publishes: (None, None), or a policy together with
\* the semantic context derived from that policy
Published(pair) ==
    \/ pair = <<None, None>>
    \/ /\ pair[1] # None
       /\ generate_semantic_context(pair[1]) = NoException(pair[2])

\* the existing filter holds an identity clause
HasIdentityClause(store, kwargs) ==
    /\ "filter" \in DOMAIN kwargs
    /\ IF store = "Pinecone"
       THEN "authorized_identities" \in DOMAIN kwargs.filter
       ELSE /\ IsQdrantFilter(kwargs.filter)
            /\ \E i \in DOMAIN kwargs.filter.must :
                   /\ HasKey(kwargs.filter.must[i])
                   /\ kwargs.filter.must[i].key = "metadata.authorized_identities"

\* how many identity clauses the filter requires
IdentityClauseCount(store, kwargs) ==
    IF "filter" \notin DOMAIN kwargs THEN 0
    ELSE IF store = "Pinecone"
         THEN Cardinality(DOMAIN kwargs.filter \cap {"authorized_identities"})
         ELSE Cardinality({i \in DOMAIN kwargs.filter.must :
                  /\ HasKey(kwargs.filter.must[i])
                  /\ kwargs.filter.must[i].key = "metadata.authorized_identities"})

\* the search options hold no filter, or a filter of the backend's dialect
\* that has no clause keyed on a semantic field
NoSemanticClause(store, kwargs) ==
    \/ "filter" \notin DOMAIN kwargs
    \/ IF store = "Pinecone"
       THEN DOMAIN kwargs.filter \cap
                {"pebblo_semantic_topics", "pebblo_semantic_entities"} = {}
       ELSE /\ IsQdrantFilter(kwargs.filter)
            /\ \A i \in DOMAIN kwargs.filter.must_not :
                   HasKey(kwargs.filter.must_not[i]) =>
                       kwargs.filter.must_not[i].key \notin
                           {"metadata.pebblo_semantic_topics",
                            "metadata.pebblo_semantic_entities"}

\* the filter holds an exclusion clause on the metadata field with the list
HasExclusionClause(store, kwargs, field, denied) ==
    /\ "filter" \in DOMAIN kwargs
    /\ IF store = "Pinecone"
       THEN /\ field \in DOMAIN kwargs.filter
            /\ kwargs.filter[field] = [op |-> "$nin", vals |-> denied]
       ELSE /\ IsQdrantFilter(kwargs.filter)
            /\ \E i \in DOMAIN kwargs.filter.must_not :
                   kwargs.filter.must_not[i]
                       = FieldCondition("metadata." \o field, denied)

\* C1: a refresh cycle whose fetch fails (file missing or malformed, non-200
\* response, network failure) or whose derivation fails leaves the cached
\* pair as it was before the cycle, and the cache always holds the pair of
\* the last cycle that fetched a policy.
C1_FailedCycleKeepsCache ==
    /\ (loop = "sleep" /\ outcome \in {"absent", "raised"}) => policy_cache = before
    /\ policy_cache = last_good

\* C2: whatever the interleaving of the refresh thread with the readers,
\* every tuple a reader loads from the cache, and the cache itself, is a
\* pair one refresh published: the semantic context is the projection of
\* the policy beside it.
C2_ReadsSeePublishedPair ==
    /\ Published(policy_cache)
    /\ \A r \in Readers : Published(readers[r].snap)

\* a reader is between the two loads of get_semantic_context holding the
\* pair of one policy while the cache already holds the pair of another
C2_Witness ==
    \E r \in Readers :
        /\ readers[r].pc = "index"
        /\ readers[r].snap[1] = PolicyA
        /\ policy_cache[1] = PolicyB
        /\ policy_cache[2] # readers[r].snap[2]

\* C3: when an enforcement step of _get_docs raises, the search options are
\* left exactly as they were before the query began.
C3_AllOrNothing ==
    (op = "_get_docs" /\ exc # "none") => search_kwargs = kw0

\* C4: after a query's search returned, the clauses the query added are no
\* longer in the search options, and a query that follows a completed query
\* completes without a conflict error.
C4_ClausesArePerQuery ==
    /\ (op = "_get_docs" /\ exc = "none") => search_kwargs = kw0
    /\ (op = "_get_docs" /\ prev = [op |-> "_get_docs", exc |-> "none"])
           => exc = "none"

\* C5: for Pinecone and Qdrant, with or without an auth context,
\* set_identity_enforcement_filter raises a conflict error when the existing
\* filter already holds an authorized_identities clause, and leaves the
\* filter unchanged.
C5_IdentityConflictRaises ==
    (op = "set_identity_enforcement_filter" /\ HasIdentityClause(vectorstore, kw0))
        => (exc = "ValueError" /\ search_kwargs = kw0)

\* C6: with an auth context set, a second application of the identity
\* filter right after one that succeeded raises a conflict error, changes
\* nothing, and the filter holds exactly one identity clause.
C6_SecondApplicationConflicts ==
    (/\ op = "set_identity_enforcement_filter"
     /\ prev = [op |-> "set_identity_enforcement_filter", exc |-> "none"]
     /\ auth_context # None)
        => /\ exc = "ValueError"
           /\ search_kwargs = kw0
           /\ IdentityClauseCount(vectorstore, search_kwargs) = 1

\* the second application on a Qdrant filter whose must branch already held
\* a caller's condition before the first one
C6_Witness ==
    /\ op = "set_identity_enforcement_filter"
    /\ prev = [op |-> "set_identity_enforcement_filter", exc |-> "none"]
    /\ auth_context # None
    /\ vectorstore = "Qdrant"
    /\ exc = "ValueError"
    /\ Len(search_kwargs.filter.must) = 2

\* C7: the identity filter compiled over search options without a filter
\* matches a document exactly when the document's authorized_identities
\* share an identity with the auth context.
C7_IdentityFilterMatchesIntersection ==
    (/\ op = "set_identity_enforcement_filter"
     /\ exc = "none"
     /\ auth_context # None
     /\ "filter" \notin DOMAIN kw0)
        => similarity_search(vectorstore, search_kwargs)
               = {d \in Documents :
                     d.authorized_identities
                         \cap Range(auth_context.authorized_identities) # {}}

\* auth context [Finance] compiled for Pinecone: a document tagged
\* [Finance] is matched, one tagged [Legal] is not
C7_Witness ==
    /\ op = "set_identity_enforcement_filter"
    /\ exc = "none"
    /\ auth_context # None
    /\ "filter" \notin DOMAIN kw0
    /\ vectorstore = "Pinecone"
    /\ auth_context.authorized_identities = <<"Finance">>
    /\ \E d \in similarity_search(vectorstore, search_kwargs) :
           d.authorized_identities = {"Finance"}
    /\ \E d \in Documents \ similarity_search(vectorstore, search_kwargs) :
           d.authorized_identities = {"Legal"}

\* C8: with denied topics set and no semantic clause in the caller's
\* filter, the documents a query's search returns hold no denied topic, and
\* a document without a denied topic that the caller's filter, the identity
\* clause and the entity clause all admit is returned.
C8_DeniedTopicsExcluded ==
    (/\ op = "_get_docs"
     /\ exc = "none"
     /\ semantic_context # None
     /\ NoSemanticClause(vectorstore, kw0)
     /\ semantic_context.pebblo_semantic_topics # None
     /\ semantic_context.pebblo_semantic_topics.deny # <<>>)
        => LET denied == Range(semantic_context.pebblo_semantic_topics.deny)
           IN  /\ \A d \in docs : d.pebblo_semantic_topics \cap denied = {}
               /\ \A d \in similarity_search(vectorstore, kw0) :
                      (/\ d.pebblo_semantic_topics \cap denied = {}
                       /\ auth_context # None =>
                              d.authorized_identities
                                  \cap Range(auth_context.authorized_identities) # {}
                       /\ semantic_context.pebblo_semantic_entities # None =>
                              d.pebblo_semantic_entities \cap
                                  Range(semantic_context.pebblo_semantic_entities.deny)
                                      = {})
                          => d \in docs

\* C9: with a semantic context holding both sections, and search options
\* that hold no filter or a filter without semantic clause,
\* set_semantic_enforcement_filter returns with the filter holding an
\* exclusion clause on the topic tags and one on the entity tags.
C9_TwoExclusionClauses ==
    (/\ op = "set_semantic_enforcement_filter"
     /\ semantic_context # None
     /\ NoSemanticClause(vectorstore, kw0)
     /\ semantic_context.pebblo_semantic_topics # None
     /\ semantic_context.pebblo_semantic_entities # None)
        => /\ exc = "none"
           /\ HasExclusionClause(vectorstore, search_kwargs,
                  "pebblo_semantic_topics",
                  semantic_context.pebblo_semantic_topics.deny)
           /\ HasExclusionClause(vectorstore, search_kwargs,
                  "pebblo_semantic_entities",
                  semantic_context.pebblo_semantic_entities.deny)

\* C10: with a semantic context whose deny lists are empty, compiling the
\* semantic clauses succeeds and the filter matches every document it
\* matched before.
C10_EmptyDenyListsExcludeNothing ==
    (/\ op = "set_semantic_enforcement_filter"
     /\ semantic_context # None
     /\ NoSemanticClause(vectorstore, kw0)
     /\ semantic_context.pebblo_semantic_topics # None =>
            semantic_context.pebblo_semantic_topics.deny = <<>>
     /\ semantic_context.pebblo_semantic_entities # None =>
            semantic_context.pebblo_semantic_entities.deny = <<>>)
        => /\ exc = "none"
           /\ similarity_search(vectorstore, search_kwargs)
                  = similarity_search(vectorstore, kw0)

\* the caller's filter is of the backend's dialect and holds only conditions
\* unrelated to enforcement
OnlyUnrelatedConditions(store, kwargs) ==
    /\ "filter" \in DOMAIN kwargs
    /\ ~HasIdentityClause(store, kwargs)
    /\ NoSemanticClause(store, kwargs)

\* every condition of the filter before is in the filter after, unchanged
\* and in the branch it was in
ConditionsPreserved(store, kwargs_before, kwargs_after) ==
    /\ "filter" \in DOMAIN kwargs_after
    /\ IF store = "Pinecone"
       THEN \A key \in DOMAIN kwargs_before.filter :
                /\ key \in DOMAIN kwargs_after.filter
                /\ kwargs_after.filter[key] = kwargs_before.filter[key]
       ELSE /\ IsQdrantFilter(kwargs_after.filter)
            /\ \A branch \in {"must", "must_not", "should"} :
                   LET old == kwargs_before.filter[branch]
                       new == kwargs_after.filter[branch]
                   IN  /\ Len(old) <= Len(new)
                       /\ SubSeq(new, 1, Len(old)) = old

\* the filter holds the identity clause for the identities
HasIdentityClauseFor(store, kwargs, identities) ==
    /\ "filter" \in DOMAIN kwargs
    /\ IF store = "Pinecone"
       THEN /\ "authorized_identities" \in DOMAIN kwargs.filter
            /\ kwargs.filter["authorized_identities"]
                   = [op |-> "$in", vals |-> identities]
       ELSE /\ IsQdrantFilter(kwargs.filter)
            /\ \E i \in DOMAIN kwargs.filter.must :
                   kwargs.filter.must[i]
                       = FieldCondition("metadata.authorized_identities",
                                        identities)

\* C11: for each backend, with a caller filter that holds only unrelated
\* conditions, applying identity enforcement and then semantic enforcement
\* succeeds, and the filter afterwards holds every caller condition
\* unchanged, the identity clause and the exclusion clauses.
C11_CallerConditionsKept ==
    (/\ op = "_get_docs"
     /\ OnlyUnrelatedConditions(vectorstore, kw0)
     /\ auth_context # None
     /\ semantic_context # None)
        => /\ exc = "none"
           /\ ConditionsPreserved(vectorstore, kw0, search_kwargs)
           /\ HasIdentityClauseFor(vectorstore, search_kwargs,
                  auth_context.authorized_identities)
           /\ semantic_context.pebblo_semantic_topics # None =>
                  HasExclusionClause(vectorstore, search_kwargs,
                      "pebblo_semantic_topics",
                      semantic_context.pebblo_semantic_topics.deny)
           /\ semantic_context.pebblo_semantic_entities # None =>
                  HasExclusionClause(vectorstore, search_kwargs,
                      "pebblo_semantic_entities",
                      semantic_context.pebblo_semantic_entities.deny)

\* the conditions of a Qdrant branch that are keyed on a semantic field
SemanticConditions(branch) ==
    {i \in DOMAIN branch :
        /\ HasKey(branch[i])
        /\ branch[i].key \in {"metadata.pebblo_semantic_topics",
                              "metadata.pebblo_semantic_entities"}}

\* the existing filter holds a clause keyed on a semantic field, anywhere
HasSemanticKeyedClause(store, kwargs) ==
    /\ "filter" \in DOMAIN kwargs
    /\ IF store = "Pinecone"
       THEN DOMAIN kwargs.filter \cap
                {"pebblo_semantic_topics", "pebblo_semantic_entities"} # {}
       ELSE /\ IsQdrantFilter(kwargs.filter)
            /\ \E branch \in {"must", "must_not", "should"} :
                   SemanticConditions(kwargs.filter[branch]) # {}

\* the existing filter holds a clause keyed on a semantic field where the
\* enforcement writes its own: a key of the Pinecone filter, a condition of
\* must_not of the Qdrant filter
HasSemanticExclusionClause(store, kwargs) ==
    /\ "filter" \in DOMAIN kwargs
    /\ IF store = "Pinecone"
       THEN DOMAIN kwargs.filter \cap
                {"pebblo_semantic_topics", "pebblo_semantic_entities"} # {}
       ELSE /\ IsQdrantFilter(kwargs.filter)
            /\ SemanticConditions(kwargs.filter.must_not) # {}

\* C12 as stated: with a semantic context set and an existing filter that
\* holds a clause keyed on a semantic field, set_semantic_enforcement_filter
\* raises the conflict error and leaves the filter as it was.
C12_SemanticConflictRaises ==
    (/\ op = "set_semantic_enforcement_filter"
     /\ semantic_context # None
     /\ HasSemanticKeyedClause(vectorstore, kw0))
        => /\ exc = "ValueError"
           /\ search_kwargs = kw0

\* C12 amended: with a semantic context set and an existing filter that
\* holds a clause keyed on a semantic field as a key of the Pinecone filter
\* or as a condition of must_not of the Qdrant filter,
\* set_semantic_enforcement_filter raises the conflict error and leaves the
\* search options as they were.
C12_ExclusionBranchConflictRaises ==
    (/\ op = "set_semantic_enforcement_filter"
     /\ semantic_context # None
     /\ HasSemanticExclusionClause(vectorstore, kw0))
        => /\ exc = "ValueError"
           /\ search_kwargs = kw0

C12_Witness ==
    /\ op = "set_semantic_enforcement_filter"
    /\ vectorstore = "Qdrant"
    /\ semantic_context # None
    /\ semantic_context.pebblo_semantic_topics # None
    /\ semantic_context.pebblo_semantic_topics.deny = <<"politics">>
    /\ "filter" \in DOMAIN kw0
    /\ IsQdrantFilter(kw0.filter)
    /\ kw0.filter.must_not
           = <<FieldCondition("metadata.pebblo_semantic_topics", <<"economy">>)>>
    /\ exc = "ValueError"
    /\ search_kwargs = kw0

\* C13: _aget_docs always fails at once with NotImplementedError; it
\* applies no filter to the search options, issues no search and does not
\* run the synchronous path.
C13_AsyncNotSupported ==
    op = "_aget_docs"
        => /\ exc = "NotImplementedError"
           /\ search_kwargs = kw0
           /\ trace = <<>>
           /\ docs = {}

\* an asynchronous query in a configuration where the synchronous path
\* would have written a clause and searched
C13_Witness ==
    /\ op = "_aget_docs"
    /\ exc = "NotImplementedError"
    /\ auth_context # None
    /\ LET sync == get_docs(vectorstore, kw0, auth_context, semantic_context)
       IN  /\ sync.exc = "none"
           /\ sync.kw # kw0
           /\ sync.docs # {}

\* C14: constructing the chain over a vectorstore that is not of a supported
\* kind raises in the constructor, so no filter is ever applied and no
\* search or asynchronous call ever runs on it; constructing it over a
\* supported kind succeeds.
C14_UnsupportedVectorstoreRejected ==
    /\ vectorstore \notin SUPPORTED_VECTORSTORES =>
           /\ ~Constructed
           /\ op \in {"new", "init"}
           /\ op = "init" => exc = "ValueError"
           /\ search_kwargs = kw0
           /\ trace = <<>>
           /\ docs = {}
    /\ (/\ vectorstore \in SUPPORTED_VECTORSTORES
        /\ auth_context # InvalidAuthContext
        /\ op = "init") =>
           /\ exc = "none"
           /\ Constructed

\* the constructor has run on an unsupported vectorstore
C14_Witness ==
    /\ vectorstore = "UnsupportedVectorStore"
    /\ auth_context # None
    /\ op = "init"
    /\ exc = "ValueError"

\* C15: the refresh loop never ends because a cycle failed: the thread is
\* always at one of the positions of the loop, and after a cycle that raised
\* it sleeps and then starts another cycle.
C15_LoopSurvivesFailedCycle ==
    /\ [](loop \in {"fetch", "update", "sleep"})
    /\ (outcome = "raised" /\ loop # "fetch") ~> (loop = "fetch")
    /\ []<>(loop = "fetch")

\* a cycle has begun after a cycle whose fetch raised
C15_Witness ==
    /\ outcome = "raised"
    /\ loop = "update"
    /\ fetch_call # None

\* the file or the response a fetch met is one of the failures: file missing
\* or malformed, server not reached, status other than 200, body not parsing
FetchFailure(source, input) ==
    IF source = "file"
    THEN ~input.exists \/ ~input.parses
    ELSE input = None \/ input.status_code # 200 \/ ~input.parses

\* C16: a call of get_policy_from_file or get_policy_from_api never raises
\* to its caller, and on a failure (file missing or malformed, server not
\* reached, status other than 200, body not parsing) it returns None.
C16_FetchNeverRaises ==
    fetch_call # None
        => /\ fetch_call.result.exc = "none"
           /\ FetchFailure(policy_source, fetch_call.input) =>
                  fetch_call.result.value = None

\* C17: a read of the cache (get_semantic_context) can always be made and
\* completes without waiting for the refresh thread, wherever that thread is
\* in its cycle; it returns the semantic context of the pair stored when it
\* reads, and None as long as no cycle has fetched a policy.
C17_ReadsNeverWait ==
    \A r \in Readers :
        /\ readers[r].pc = "idle" => ENABLED TestPolicyCache(r)
        /\ readers[r].pc = "index" => ENABLED GetSemanticContext(r)
        /\ (readers[r].method = "get_semantic_context" /\ readers[r].pc = "idle")
               => /\ readers[r].result = readers[r].snap[2]
                  /\ last_good = <<None, None>> => readers[r].result = None

\* a read in progress while the thread is fetching, with a context stored
C17_Witness ==
    \E r \in Readers :
        /\ readers[r].pc = "index"
        /\ loop = "fetch"
        /\ fetch_call = None
        /\ policy_cache[2] # None
        /\ ENABLED GetSemanticContext(r)
        /\ \E q \in Readers :
               /\ readers[q].method = "get_semantic_context"
               /\ readers[q].pc = "idle"
               /\ readers[q].result = policy_cache[2]

\* C18: in every query the identity step runs first, the semantic step
\* second and the search last; the search is issued exactly when both steps
\* returned without error, with the search options they left, and a query
\* in which either step raised issues no search and returns no document.
C18_SearchOnlyAfterBothFilters ==
    op = "_get_docs"
        => LET identity == set_identity_enforcement_filter(
                               vectorstore, kw0, auth_context)
               semantic == set_semantic_enforcement_filter(
                               vectorstore, identity.kw, semantic_context)
               searched == "search" \in Range(trace)
           IN  /\ trace \in {<<"identity">>, <<"identity", "semantic">>,
                             <<"identity", "semantic", "search">>}
               /\ "semantic" \in Range(trace) <=> identity.exc = "none"
               /\ searched <=> (identity.exc = "none" /\ semantic.exc = "none")
               /\ searched <=> exc = "none"
               /\ searched =>
                      /\ search_kwargs = semantic.kw
                      /\ docs = similarity_search(vectorstore, search_kwargs)
               /\ ~searched => docs = {}

\* a query whose identity step wrote its clause and whose semantic step raised
C18_Witness ==
    /\ op = "_get_docs"
    /\ auth_context # None
    /\ search_kwargs # kw0
    /\ trace = <<"identity", "semantic">>
    /\ exc = "ValueError"
    /\ docs = {}

\* C19: with no auth context and an existing filter that holds no identity
\* clause, set_identity_enforcement_filter returns without error, adds no
\* identity clause and leaves the search options as they were, on each
\* backend.
C19_NoAuthContextNoIdentityClause ==
    (/\ op = "set_identity_enforcement_filter"
     /\ auth_context = None
     /\ ~HasIdentityClause(vectorstore, kw0))
        => /\ exc = "none"
           /\ search_kwargs = kw0
           /\ ~HasIdentityClause(vectorstore, search_kwargs)

\* the call on a filter with unrelated conditions only
C19_Witness ==
    /\ op = "set_identity_enforcement_filter"
    /\ prev.op = "init"
    /\ auth_context = None
    /\ vectorstore = "Pinecone"
    /\ "filter" \in DOMAIN kw0
    /\ DOMAIN kw0.filter = {"source"}
    /\ exc = "none"

\* the semantic step added no clause: the Pinecone options are as they were;
\* the Qdrant filter is as it was, or is a new filter without conditions
NoClauseAdded(store, kwargs_before, kwargs_after) ==
    IF store = "Pinecone" \/ "filter" \in DOMAIN kwargs_before
    THEN kwargs_after = kwargs_before
    ELSE kwargs_after = SetFilter(kwargs_before, QdrantFilter(<<>>, <<>>, <<>>))

\* the query of the last _get_docs went on to the search, with the
\* enforcement its identity step left
SearchedWithIdentityOnly ==
    LET identity == set_identity_enforcement_filter(vectorstore, kw0, auth_context)
    IN  /\ exc = "none"
        /\ trace = <<"identity", "semantic", "search">>
        /\ NoClauseAdded(vectorstore, identity.kw, search_kwargs)
        /\ docs = similarity_search(vectorstore, identity.kw)

\* C20 as stated: with no semantic context, for any existing filter that
\* has no semantic clause, set_semantic_enforcement_filter raises no error
\* and adds no exclusion clause, and a query whose identity step returned
\* proceeds to the search with identity-only (or no) enforcement.
C20_NoSemanticContextNoExclusion ==
    /\ (/\ op = "set_semantic_enforcement_filter"
        /\ semantic_context = None
        /\ ~HasSemanticKeyedClause(vectorstore, kw0))
           => /\ exc = "none"
              /\ NoClauseAdded(vectorstore, kw0, search_kwargs)
    /\ (/\ op = "_get_docs"
        /\ semantic_context = None
        /\ ~HasSemanticKeyedClause(vectorstore, kw0)
        /\ set_identity_enforcement_filter(vectorstore, kw0, auth_context).exc
               = "none")
           => SearchedWithIdentityOnly

\* the search options hold no filter, or a filter of the backend's own type
\* (a dict for Pinecone, a rest.Filter for Qdrant) without semantic clause
OwnTypeWithoutSemanticClause(store, kwargs) ==
    \/ "filter" \notin DOMAIN kwargs
    \/ /\ store = "Qdrant" => IsQdrantFilter(kwargs.filter)
       /\ ~HasSemanticKeyedClause(store, kwargs)

\* C20 amended: with no semantic context, for search options that hold no
\* filter or a filter of the backend's own type without semantic clause,
\* set_semantic_enforcement_filter raises no error and adds no exclusion
\* clause, and a query whose identity step returned proceeds to the search
\* with identity-only (or no) enforcement.
C20_OwnTypeFilterNoExclusion ==
    /\ (/\ op = "set_semantic_enforcement_filter"
        /\ semantic_context = None
        /\ OwnTypeWithoutSemanticClause(vectorstore, kw0))
           => /\ exc = "none"
              /\ NoClauseAdded(vectorstore, kw0, search_kwargs)
    /\ (/\ op = "_get_docs"
        /\ semantic_context = None
        /\ OwnTypeWithoutSemanticClause(vectorstore, kw0)
        /\ set_identity_enforcement_filter(vectorstore, kw0, auth_context).exc
               = "none")
           => SearchedWithIdentityOnly

\* a query without semantic context on a Qdrant filter with unrelated
\* conditions, searched with the identity clause only
C20_Witness ==
    /\ op = "_get_docs"
    /\ vectorstore = "Qdrant"
    /\ semantic_context = None
    /\ auth_context # None
    /\ auth_context.authorized_identities = <<"Finance">>
    /\ "filter" \in DOMAIN kw0
    /\ IsQdrantFilter(kw0.filter)
    /\ kw0.filter.must_not = <<FieldCondition("metadata.source", <<"b">>)>>
    /\ exc = "none"
    /\ search_kwargs.filter.must_not = kw0.filter.must_not
    /\ docs # {}

\* C21: for a fetched policy with entity and semantics sections, the denied
\* entities of the derived semantic context are, as a set, the entity
\* deny-group names united with the entity deny list, the denied topics are
\* the semantics deny-group names united with the semantics deny list, and
\* each deny-group name resolves to itself.
C21_DerivedContextIsUnion ==
    (/\ outcome = "fetched"
     /\ loop = "sleep"
     /\ fetch_call # None
     /\ fetch_call.result.value # None
     /\ fetch_call.result.value.entity # None
     /\ fetch_call.result.value.semantics # None)
        => LET policy == fetch_call.result.value
               context == get_semantic_context(policy_cache)
           IN  /\ context # None
               /\ Range(context.pebblo_semantic_entities.deny)
                      = Range(policy.entity.deny_groups) \cup Range(policy.entity.deny)
               /\ Range(context.pebblo_semantic_topics.deny)
                      = Range(policy.semantics.deny_groups)
                            \cup Range(policy.semantics.deny)
               /\ get_entities_from_groups(policy.entity.deny_groups)
                      = policy.entity.deny_groups
               /\ get_topics_from_groups(policy.semantics.deny_groups)
                      = policy.semantics.deny_groups

\* a derivation from a policy with a deny group and a deny list in each
\* section, one name being both a group and an explicit entry
C21_Witness ==
    /\ outcome = "fetched"
    /\ loop = "sleep"
    /\ fetch_call # None
    /\ fetch_call.result.value.entity
           = [deny_groups |-> <<"pii">>, deny |-> <<"ssn", "pii">>]
    /\ fetch_call.result.value.semantics
           = [deny_groups |-> <<"markets">>, deny |-> <<"politics">>]
    /\ policy_cache[2] # None
    /\ policy_cache[2].pebblo_semantic_entities.deny = <<"pii", "ssn", "pii">>

QueryPathStep ==
    \/ readers' # readers
    \/ <<op, exc, prev, kw0, search_kwargs, trace, docs>>'
           # <<op, exc, prev, kw0, search_kwargs, trace, docs>>

\* C23: the refresh loop is the only writer of the policy cache: a step of
\* the query path (get_semantic_context, enforce_identity_policy, a query
\* that succeeds, a query that raises) leaves the cached pair as it is and
\* leaves the refresh thread where it is in its cycle.
C23_QueryPathNeverWritesCache ==
    [][QueryPathStep =>
          /\ policy_cache' = policy_cache
          /\ loop' = loop
          /\ fetched' = fetched]_vars

\* a query has raised the conflict error while a policy is cached and the
\* refresh thread is in a cycle
C23_Witness ==
    /\ op = "_get_docs"
    /\ exc = "ValueError"
    /\ policy_cache[1] # None
    /\ loop = "update"
    /\ readers[1].method = "enforce_identity_policy"

\* C24: on Qdrant, with an existing rest.Filter, a call that returns appends
\* the identity clause to must, or the semantic clauses to must_not; the
\* conditions that were in that branch stay, in order, before the new ones,
\* and the other branches are as they were.
C24_QdrantBranchesPreserved ==
    /\ (/\ op = "set_identity_enforcement_filter"
        /\ vectorstore = "Qdrant"
        /\ exc = "none"
        /\ auth_context # None
        /\ "filter" \in DOMAIN kw0)
           => /\ search_kwargs.filter.must
                     = kw0.filter.must
                         \o <<FieldCondition("metadata.authorized_identities",
                                             auth_context.authorized_identities)>>
              /\ search_kwargs.filter.must_not = kw0.filter.must_not
              /\ search_kwargs.filter.should = kw0.filter.should
    /\ (/\ op = "set_semantic_enforcement_filter"
        /\ vectorstore = "Qdrant"
        /\ exc = "none"
        /\ "filter" \in DOMAIN kw0)
           => /\ search_kwargs.filter.must_not
                     = kw0.filter.must_not \o qdrant_semantic_filters(semantic_context)
              /\ search_kwargs.filter.must = kw0.filter.must
              /\ search_kwargs.filter.should = kw0.filter.should

\* the identity clause appended after a condition of must, with conditions
\* in must_not and in should
C24_Witness ==
    /\ op = "set_identity_enforcement_filter"
    /\ vectorstore = "Qdrant"
    /\ exc = "none"
    /\ auth_context # None
    /\ "filter" \in DOMAIN kw0
    /\ IsQdrantFilter(kw0.filter)
    /\ kw0.filter.must = <<FieldCondition("metadata.source", <<"a">>)>>
    /\ kw0.filter.must_not # <<>>
    /\ kw0.filter.should # <<>>
    /\ Len(search_kwargs.filter.must) = Len(kw0.filter.must) + 1

\* C25: constructing the chain over a supported vectorstore validates the
\* auth context: with auth_context None, or a value that is not an auth
\* context, the constructor raises ValueError; with an auth context it
\* returns.
C25_AuthContextValidated ==
    (op = "init" /\ vectorstore \in SUPPORTED_VECTORSTORES)
        => IF auth_context = None \/ auth_context \notin AuthContexts
           THEN exc = "ValueError" /\ ~Constructed
           ELSE exc = "none" /\ Constructed


(***************************************************************************)
(* The Slack loader: SlackAPIWrapper and SlackAPILoader.                   *)
(***************************************************************************)
MaxMembers == 2
MaxMessages == 1

\* the workspace: two channels, two users of the workspace and one member
\* the users list does not report
Channels == <<"general", "secret">>
WorkspaceUsers == <<"U1", "U2">>
MemberIds == {"U1", "U2", "U9"}
IsPrivateChannel(channel) == channel = "secret"
ChannelId(channel) == IF channel = "secret" THEN "C2" ELSE "C1"
ProfileEmail(user) == IF user = "U1" THEN "u1@corp" ELSE "u2@corp"

MemberLists ==
    {m \in UNION {[1..n -> MemberIds] : n \in 0..MaxMembers} :
        \A i, j \in DOMAIN m : i # j => m[i] # m[j]}

\* what the Slack API answers, and the arguments of the loader; an email the
\* profile lacks is "", channel_name "" is the argument left out
SlackWorkspaces ==
    [has_email    : [Range(WorkspaceUsers) -> BOOLEAN],
     members      : MemberLists,
     listed       : {{"general", "secret"}, {"general"}, {}},
     users_fail   : BOOLEAN,
     members_fail : BOOLEAN,
     messages     : 0..MaxMessages,
     load_auth    : BOOLEAN,
     channel_name : {"", "general", "secret"}]

\* get_channel_details_map: name -> id, name, is_private of the channels
\* conversations_list reports for the requested types; {} when it raises
get_channel_details_map(ws) ==
    [c \in ws.listed |->
        [id |-> ChannelId(c), name |-> c, is_private |-> IsPrivateChannel(c)]]

\* get_user_details_map: user id -> details with the profile's email; {}
\* when users_list raises
get_user_details_map(ws) ==
    [u \in (IF ws.users_fail THEN {} ELSE Range(WorkspaceUsers)) |->
        [name |-> u, email |-> IF ws.has_email[u] THEN ProfileEmail(u) ELSE ""]]

\* get_channel_members: the members conversations_members reports, [] when
\* it raises
get_channel_members(ws, channel_id) ==
    IF ws.members_fail \/ channel_id # ChannelId("secret") THEN <<>>
    ELSE ws.members

\* list(d.keys()): the keys in insertion order
keys(d, order) == SelectSeq(order, LAMBDA k : k \in DOMAIN d)

\* the loop of get_authorized_identities: the email of each member the user
\* details know with a non-empty email
RECURSIVE member_emails(_, _)
member_emails(members, user_details_map) ==
    IF members = <<>> THEN <<>>
    ELSE LET member == Head(members)
             user_email == IF member \in DOMAIN user_details_map
                           THEN user_details_map[member].email ELSE ""
         IN  (IF user_email # "" THEN <<user_email>> ELSE <<>>)
                 \o member_emails(Tail(members), user_details_map)

\* a variant that takes every workspace user, whatever the channel
get_authorized_identities_ignoring_privacy(ws, channel_name, user_details_map, channel_details_map) ==
    member_emails(keys(user_details_map, WorkspaceUsers), user_details_map)

get_authorized_identities(ws, channel_name, user_details_map, channel_details_map) ==
    LET known == channel_name \in DOMAIN channel_details_map
        _is_private == known /\ channel_details_map[channel_name].is_private
        members == IF _is_private
                   THEN get_channel_members(ws, channel_details_map[channel_name].id)
                   ELSE keys(user_details_map, WorkspaceUsers)
    IN  member_emails(members, user_details_map)

\* _get_channels: the channel asked for, or every channel of the details map
get_channels(ws, channel_details_map) ==
    IF ws.channel_name # "" THEN <<ws.channel_name>>
    ELSE keys(channel_details_map, Channels)

\* _load_authorized_identities: one entry per channel of _get_channels
load_authorized_identities(ws, channel_details_map) ==
    LET user_details_map == get_user_details_map(ws)
    IN  [c \in Range(get_channels(ws, channel_details_map)) |->
            get_authorized_identities(ws, c, user_details_map,
                                      channel_details_map)]

\* _get_message_metadata
get_message_metadata(ws, identities_map, channel_name, user) ==
    IF ws.load_auth
    THEN [channel |-> channel_name, user |-> user,
          authorized_identities |->
              IF channel_name \in DOMAIN identities_map
              THEN identities_map[channel_name] ELSE <<>>,
          owner |-> user]
    ELSE [channel |-> channel_name, user |-> user]

\* the documents of one channel: none without a channel id or without
\* messages, else one per message
channel_documents(ws, identities_map, channel_details_map, channel_name) ==
    IF channel_name \notin DOMAIN channel_details_map THEN <<>>
    ELSE [i \in 1..ws.messages |->
            [page_content |-> "text",
             metadata |-> get_message_metadata(ws, identities_map,
                                               channel_name, "U1")]]

RECURSIVE lazy_load(_, _, _, _)
lazy_load(ws, identities_map, channel_details_map, channels) ==
    IF channels = <<>> THEN <<>>
    ELSE channel_documents(ws, identities_map, channel_details_map,
                           Head(channels))
             \o lazy_load(ws, identities_map, channel_details_map,
                          Tail(channels))

\* SlackAPILoader(...): the details map is fetched and, with load_auth, the
\* authorized identities of every channel to load
SlackAPILoaderInit ==
    /\ slack_pc = "new"
    /\ slack_pc' = "constructed"
    /\ authorized_identities_map' =
           IF slack.load_auth
           THEN load_authorized_identities(slack, get_channel_details_map(slack))
           ELSE EmptyDict
    /\ UNCHANGED <<slack, slack_docs>>
    /\ UNCHANGED <<chain_vars, cache_vars, prompt_vars>>

\* list(loader.lazy_load())
SlackLazyLoad ==
    /\ slack_pc = "constructed"
    /\ slack_pc' = "loaded"
    /\ slack_docs' =
           lazy_load(slack, authorized_identities_map,
                     get_channel_details_map(slack),
                     get_channels(slack, get_channel_details_map(slack)))
    /\ UNCHANGED <<slack, authorized_identities_map>>
    /\ UNCHANGED <<chain_vars, cache_vars, prompt_vars>>

InitSlack ==
    /\ InitTestChain
    /\ InitCache
    /\ policy_source = "file"
    /\ slack \in SlackWorkspaces
    /\ authorized_identities_map = None
    /\ slack_docs = <<>>
    /\ slack_pc = "new"
    /\ NoPrompt

NextSlack ==
    \/ SlackAPILoaderInit
    \/ SlackLazyLoad

SpecSlack == InitSlack /\ [][NextSlack]_vars


\* the users the users list reports, and the emails of those of a set
ReportedUsers == IF slack.users_fail THEN {} ELSE Range(WorkspaceUsers)
EmailsOf(users) ==
    {ProfileEmail(u) : u \in {v \in users \cap ReportedUsers : slack.has_email[v]}}
ReportedMembers == IF slack.members_fail THEN {} ELSE Range(slack.members)

NextReads ==
    \/ FetchPolicy
    \/ UpdateLocalPolicyCache
    \/ Sleep
    \/ TestPolicyCache(1)
    \/ GetSemanticContext(1)
    \/ EnforceIdentityPolicy(1)

FairSpecReads ==
    /\ InitPolicy
    /\ [][NextReads]_vars
    /\ WF_vars(FetchPolicy)
    /\ WF_vars(UpdateLocalPolicyCache)
    /\ WF_vars(Sleep)

\* every fetch of the current and of the later cycles returns policy P
SourceReturns(P) == fetch_call # None => fetch_call.result = NoException(P)

\* the pair a cycle stores for policy P
PairOf(P) == <<P, generate_semantic_context(P).value>>

\* the policies with an entity or a semantics section
SectionedPolicies == {P \in Policies : P.entity # None \/ P.semantics # None}

SuperuserNames(policy) ==
    IF policy = None THEN {}
    ELSE {policy.identity.superuser[i].name :
              i \in DOMAIN policy.identity.superuser}

\* C29: enforce_identity_policy returns None exactly when the auth context
\* given is None or its user_id is the name of a superuser of the policy the
\* cache holds at the call; otherwise it returns the auth context unchanged,
\* and so it does for every auth context that is not None when no policy is
\* cached.
C29_SuperuserOrAbsentGivesNone ==
    \A r \in Readers :
        readers[r].method = "enforce_identity_policy" =>
            LET auth == readers[r].auth
                policy == readers[r].snap[1]
                result == readers[r].result
                superuser == IF auth = None THEN FALSE
                             ELSE auth.user_id \in SuperuserNames(policy)
            IN  /\ (result = None) <=> (auth = None \/ superuser)
                /\ (result # None) => (result = auth)
                /\ (policy = None /\ auth # None) => (result = auth)

\* one call returned None for the superuser u1 of PolicyA, another returned
\* the auth context of u1 unchanged while no policy was cached
C29_Witness ==
    \E r, q \in Readers :
        /\ readers[r].method = "enforce_identity_policy"
        /\ readers[r].snap[1] = PolicyA
        /\ readers[r].auth # None
        /\ readers[r].result = None
        /\ readers[q].method = "enforce_identity_policy"
        /\ readers[q].snap[1] = None
        /\ readers[q].auth # None
        /\ readers[q].result = readers[q].auth


(***************************************************************************)
(* send_prompt and asend_prompt: the prompt, the answer and the retrieved  *)
(* documents reported to the local classifier and to the cloud.            *)
(***************************************************************************)
MaxDocs == 2

\* the texts of one query: what the user asked, what the model answered and
\* the page content of the retrieved documents
RawTexts == {"question", "answer", "doc"}

\* dict.update and dict.pop(key, None)
dict_update(d, e) ==
    [k \in DOMAIN d \cup DOMAIN e |-> IF k \in DOMAIN e THEN e[k] ELSE d[k]]
dict_pop(d, key) == [k \in DOMAIN d \ {key} |-> d[k]]

\* build_prompt_qa_payload: qa.dict(exclude_unset=True)
build_prompt_qa_payload(call) ==
    [name |-> "app",
     context |-> [i \in 1..call.docs |->
                     [retrieved_from |-> "source", doc |-> "doc",
                      vector_db |-> "Pinecone", pb_checksum |-> "checksum"]],
     prompt |-> [data |-> "question", entities |-> "entities",
                 entityCount |-> "entityCount",
                 prompt_gov_enabled |-> "prompt_gov_enabled"],
     response |-> [data |-> "answer"],
     prompt_time |-> "prompt_time",
     user |-> "user",
     user_identities |-> "user_identities",
     classifier_location |-> call.classifier_location]

\* a section of the classifier's retrieval_data: null, or a dict with or
\* without a data field, which may repeat the text it was sent
ClassifierSections ==
    {None,
     [entities |-> "found"],
     [data |-> "classified", entities |-> "found"],
     [data |-> "question", entities |-> "found"]}

\* the bodies of the classifier's answer: not JSON, a JSON list (its items
\* under their indexes), a JSON dict that is empty, an error report, or a
\* report with retrieval_data
ClassifierDicts ==
    {EmptyDict, [detail |-> "error"]}
    \cup {[retrieval_data |-> rd] :
             rd \in UNION {[keys_ -> ClassifierSections] :
                              keys_ \in SUBSET {"prompt", "response"}}}
ClassifierBodies ==
    {[kind |-> "text"], [kind |-> "list", value |-> EmptyDict],
     [kind |-> "list", value |-> [index \in {"0"} |-> "item"]]}
    \cup {[kind |-> "dict", value |-> d] : d \in ClassifierDicts}

\* what the request to the local classifier meets: no server, or a response
ClassifierAnswers ==
    {[reached |-> FALSE]}
    \cup [reached : {TRUE}, status_code : {200, 500}, body : ClassifierBodies]

\* make_request: the Response, None when the request raises
make_request(answer) == IF answer.reached THEN answer ELSE None

\* pebblo_resp.json() if pebblo_resp else None: a Response is falsy when its
\* status is 400 or more; json() raises on a body that is not JSON
response_json(response) ==
    IF response = None THEN NoException(None)
    ELSE IF response.status_code >= 400 THEN NoException(None)
    ELSE IF response.body.kind = "text" THEN Exception("JSONDecodeError")
    ELSE NoException(response.body)

\* amake_request: the body as JSON whatever the status, None when the
\* request or the parsing raises
amake_request(answer) ==
    IF ~answer.reached THEN None
    ELSE IF answer.body.kind = "text" THEN None
    ELSE answer.body

\* bool(pebblo_resp) for None, a list or a dict
Truthy(json) ==
    /\ json # None
    /\ DOMAIN json.value # {}

\* one of `response.update(...)`, `response.pop("data", None)`: the section
\* of the payload after the two calls, or the exception of the first
update_section(section, pebblo_resp, name) ==
    LET retrieval_data == IF "retrieval_data" \in DOMAIN pebblo_resp.value
                          THEN pebblo_resp.value.retrieval_data ELSE EmptyDict
        other == IF name \in DOMAIN retrieval_data THEN retrieval_data[name]
                 ELSE EmptyDict
    IN  IF other = None THEN Exception("TypeError")
        ELSE NoException(dict_pop(dict_update(section, other), "data"))

\* a variant that sends the payload as it was built
update_cloud_payload_leaving_payload(payload, pebblo_resp) ==
    NoException(payload)

\* update_cloud_payload: the payload after the call, or the exception raised
update_cloud_payload(payload, pebblo_resp) ==
    IF Truthy(pebblo_resp)
    THEN IF pebblo_resp.kind # "dict" THEN Exception("AttributeError")
         ELSE LET response == update_section(payload.response, pebblo_resp,
                                             "response")
                  prompt == update_section(payload.prompt, pebblo_resp, "prompt")
              IN  IF response.exc # "none" THEN response
                  ELSE IF prompt.exc # "none" THEN prompt
                  ELSE NoException(
                      [payload EXCEPT
                          !.response = response.value,
                          !.prompt = prompt.value,
                          !.context = [i \in DOMAIN payload.context |->
                                          dict_pop(payload.context[i], "doc")]])
    ELSE NoException([payload EXCEPT !.response = EmptyDict,
                                     !.prompt = EmptyDict,
                                     !.context = <<>>])

\* the part of send_prompt and asend_prompt after the request to the local
\* classifier: how the call ends and the payload it posts to the cloud
send_to_cloud(call, payload, pebblo_resp) ==
    IF call.api_key # ""
    THEN IF call.classifier_location = "local"
         THEN IF pebblo_resp.exc # "none"
              THEN [pc |-> pebblo_resp.exc, request |-> None]
              ELSE LET updated == update_cloud_payload(payload, pebblo_resp.value)
                   IN  IF updated.exc # "none"
                       THEN [pc |-> updated.exc, request |-> None]
                       ELSE [pc |-> "returned", request |-> updated.value]
         ELSE [pc |-> "returned", request |-> payload]
    ELSE IF call.classifier_location = "pebblo-cloud"
         THEN [pc |-> "NameError", request |-> None]
         ELSE [pc |-> "returned", request |-> None]

PromptCalls ==
    [classifier_location : {"local", "pebblo-cloud"},
     api_key : {"", "key"},
     docs : 0..MaxDocs,
     classifier : ClassifierAnswers]

\* send_prompt
SendPrompt ==
    /\ prompt_pc = "new"
    /\ LET payload == build_prompt_qa_payload(prompt_call)
           pebblo_resp == IF prompt_call.classifier_location = "local"
                          THEN response_json(make_request(prompt_call.classifier))
                          ELSE NoException(None)
           sent == send_to_cloud(prompt_call, payload, pebblo_resp)
       IN  /\ prompt_pc' = "send_prompt " \o sent.pc
           /\ cloud_request' = sent.request
    /\ UNCHANGED prompt_call
    /\ UNCHANGED <<chain_vars, cache_vars, loader_vars>>

\* asend_prompt
ASendPrompt ==
    /\ prompt_pc = "new"
    /\ LET payload == build_prompt_qa_payload(prompt_call)
           pebblo_resp == IF prompt_call.classifier_location = "local"
                          THEN NoException(amake_request(prompt_call.classifier))
                          ELSE NoException(None)
           sent == send_to_cloud(prompt_call, payload, pebblo_resp)
       IN  /\ prompt_pc' = "asend_prompt " \o sent.pc
           /\ cloud_request' = sent.request
    /\ UNCHANGED prompt_call
    /\ UNCHANGED <<chain_vars, cache_vars, loader_vars>>

InitPrompt ==
    /\ InitTestChain
    /\ InitCache
    /\ policy_source = "file"
    /\ NoLoader
    /\ prompt_call \in PromptCalls
    /\ cloud_request = None
    /\ prompt_pc = "new"

NextPrompt ==
    \/ SendPrompt
    \/ ASendPrompt

SpecPrompt == InitPrompt /\ [][NextPrompt]_vars

\* the values a dict holds
Values(d) == {d[k] : k \in DOMAIN d}

\* the payload holds the prompt, the answer or the content of a document
HoldsRawText(payload) ==
    \/ "data" \in DOMAIN payload.prompt
    \/ "data" \in DOMAIN payload.response
    \/ Values(payload.prompt) \cap RawTexts # {}
    \/ Values(payload.response) \cap RawTexts # {}
    \/ \E i \in DOMAIN payload.context :
           \/ "doc" \in DOMAIN payload.context[i]
           \/ Values(payload.context[i]) \cap RawTexts # {}

\* the classifier gave a response send_prompt or asend_prompt reads as one
HasClassifierResponse ==
    /\ prompt_call.classifier.reached
    /\ prompt_call.classifier.body.kind = "dict"
    /\ prompt_call.classifier.body.value # EmptyDict
    /\ prompt_pc = "send_prompt returned" => prompt_call.classifier.status_code < 400

\* C30: with a local classifier and an API key, the payload send_prompt and
\* asend_prompt post to the cloud holds neither the prompt text, the answer
\* text nor the content of a retrieved document: with a classifier response
\* the data and doc fields are removed and the rest of the context is kept,
\* without one the prompt, the response and the context are empty.
C30_CloudPayloadHoldsNoRawText ==
    (/\ prompt_pc # "new"
     /\ prompt_call.classifier_location = "local"
     /\ prompt_call.api_key # ""
     /\ cloud_request # None) =>
        /\ ~HoldsRawText(cloud_request)
        /\ IF HasClassifierResponse
           THEN /\ Len(cloud_request.context) = prompt_call.docs
                /\ \A i \in DOMAIN cloud_request.context :
                       cloud_request.context[i]
                           = dict_pop(build_prompt_qa_payload(prompt_call).context[i],
                                      "doc")
                /\ "entities" \in DOMAIN cloud_request.prompt
           ELSE /\ cloud_request.prompt = EmptyDict
                /\ cloud_request.response = EmptyDict
                /\ cloud_request.context = <<>>

\* a call with two retrieved documents posted a payload to the cloud after
\* the classifier had answered with a data field that repeats the prompt
C30_Witness ==
    /\ prompt_pc = "send_prompt returned"
    /\ prompt_call.classifier_location = "local"
    /\ prompt_call.api_key # ""
    /\ prompt_call.docs = 2
    /\ prompt_call.classifier.reached
    /\ prompt_call.classifier.status_code = 200
    /\ prompt_call.classifier.body =
           [kind |-> "dict",
            value |-> [retrieval_data |->
                           [prompt |-> [data |-> "question", entities |-> "found"],
                            response |-> [data |-> "classified",
                                          entities |-> "found"]]]]
    /\ cloud_request # None
    /\ Len(cloud_request.context) = 2
    /\ cloud_request.prompt.entities = "found"

====
